---- MODULE Spec2Model ----
(***************************************************************************)
(* A model of the signer / notification-paired channel of                  *)
(* packages/uikit/src/state/mnemonic.ts and of the TON Connect connect and *)
(* disconnect mutations of packages/uikit/src/state/tonConnect.ts.         *)
(*                                                                         *)
(* Spec            the event bus and the three request functions           *)
(* SpecSigner      getSigner and the callbacks it returns                  *)
(* SpecSignerFair  SpecSigner with the event loop's fairness               *)
(* SpecConn        the per-wallet connection lists and disconnect          *)
(* SpecExt         SpecConn in the extension build                         *)
(* SpecSecret      getMnemonic and the Signers built around a mnemonic     *)
(* SpecGetSigner   getSigner for every auth kind with every callback       *)
(* SpecConnect     the connect mutation                                    *)
(***************************************************************************)
EXTENDS Integers, Sequences, FiniteSets, TLC

\* ---------------------------------------------------------------- bounds
MaxClock == 1      \* Date.now() takes the values 0..MaxClock
MaxReq == 2        \* requests issued in one behaviour
MaxResp == 2       \* 'response' events published in one behaviour
MaxInv == 2        \* Signer invocations in one behaviour
MaxSession == 2    \* clientSessionId takes the values 1..MaxSession
MaxConn == 2       \* entries in one wallet's stored connection list
MaxCalls == 2      \* disconnect calls in one behaviour
MaxExtCalls == 1   \* disconnect calls in one behaviour in extension mode
MaxSecrets == 1    \* getMnemonic calls in one behaviour
MaxSigners == 2    \* different Signers built in one behaviour
MaxConnects == 2   \* connect calls in one behaviour
MaxItems == 2      \* items in one connect request

\* ------------------------------------------------------- JavaScript values
\* The values a response's params can carry: a non-empty string, the empty
\* string, an object-shaped signed result (a Cell), an Error object, null
\* and undefined.
ParamValues == {"str", "emptystr", "cell", "error", "null", "undefined"}

\* typeof params
TypeOf(p) ==
    CASE p \in {"str", "emptystr"} -> "string"
      [] p \in {"cell", "error", "null"} -> "object"
      [] OTHER -> "undefined"

\* the truthiness of params, as `params && ...` tests it
Truthy(p) == p \in {"str", "cell", "error"}

NoId == -1                       \* a response event that carries no id
Ids == 0..MaxClock
NoMsg == [id |-> NoId, params |-> "none"]

VARIABLES
    now,           \* the clock Date.now() reads
    reqs,          \* the requests issued so far, in issue order
    listeners,     \* the callbacks registered on the 'response' topic, in order
    published,     \* events published so far, per topic
    lastResponse,  \* the last event published on 'response'
    signers,       \* the Signers getSigner has returned
    invs,          \* the invocations of Signers, in call order
    txStored,      \* public keys with a transaction persisted for the deep link
    location,      \* window.location
    secrets,       \* the getMnemonic calls, in call order
    targetEnv,     \* sdk.targetEnv
    stored,        \* storage: each wallet's persisted connection list
    calls,         \* the disconnect mutations called so far
    tasks,         \* per call and wallet: its disconnectFromWallet
    connects       \* the connect mutations called so far

chanVars == <<now, reqs, listeners, published, lastResponse>>
signerVars == <<signers, invs, txStored, location, secrets>>
connVars == <<targetEnv, stored, calls, tasks, connects>>

\* ------------------------------------------------------------ the promise
\* new Promise(...): pending, nothing delivered yet. calls counts the calls of
\* resolve/reject; settledBy is the id of the event that settled it; missed is
\* the params of a response with this id published before the listener was
\* registered.
NewRequest(method, id) ==
    [method |-> method, id |-> id, state |-> "pending", value |-> "none",
     settledBy |-> NoId, calls |-> 0, missed |-> "none"]

\* resolve(params) / reject(params): only the first call settles a promise
Settle(req, outcome, message) ==
    IF req.state = "pending"
    THEN [req EXCEPT !.state = outcome, !.value = message.params,
                     !.settledBy = message.id, !.calls = @ + 1]
    ELSE [req EXCEPT !.calls = @ + 1]

\* ---------------------------------------------------------- the event bus
\* sdk.uiEvents.on('response', onCallback)
On(ls, r) == Append(ls, r)

\* sdk.uiEvents.off('response', onCallback)
Off(ls, r) == SelectSeq(ls, LAMBDA x : x # r)

\* ----------------------------------------------------- the three listeners
\* a listener that tests `if (params)` instead of the type
PasswordAcceptsTruthy(params) == Truthy(params)

\* typeof params === 'string'
PasswordAccepts(params) == TypeOf(params) = "string"

SignerAccepts(params) == TypeOf(params) = "string"

\* params && typeof params === 'object'
LedgerAccepts(params) == Truthy(params) /\ TypeOf(params) = "object"

Accepts(method, params) ==
    CASE method = "getPassword" -> PasswordAccepts(params)
      [] method = "signer" -> SignerAccepts(params)
      [] method = "ledger" -> LedgerAccepts(params)

\* a listener that takes every response carrying an id as its own
IdMatchesAny(message, id) == message.id # NoId

\* message.id === id
IdMatches(message, id) == message.id = id

\* a listener that settles the promise and stays registered
OnCallbackKeepsListener(r, message, st) ==
    IF IdMatches(message, st.reqs[r].id)
    THEN LET outcome == IF Accepts(st.reqs[r].method, message.params)
                        THEN "resolved" ELSE "rejected"
         IN  [reqs |-> [st.reqs EXCEPT ![r] = Settle(@, outcome, message)],
              listeners |-> st.listeners]
    ELSE st

\* onCallback of request r, run on the bus state st = [reqs, listeners]
OnCallback(r, message, st) ==
    IF IdMatches(message, st.reqs[r].id)
    THEN LET outcome == IF Accepts(st.reqs[r].method, message.params)
                        THEN "resolved" ELSE "rejected"
         IN  [reqs |-> [st.reqs EXCEPT ![r] = Settle(@, outcome, message)],
              listeners |-> Off(st.listeners, r)]
    ELSE st

RECURSIVE Deliver(_, _, _)
Deliver(ls, message, st) ==
    IF ls = <<>> THEN st
    ELSE Deliver(Tail(ls), message, OnCallback(Head(ls), message, st))

\* sdk.uiEvents.emit('response', message): every callback registered when the
\* event is published is called, in registration order
EmitResponse(message, st) == Deliver(st.listeners, message, st)


\* ------------------------------------------------- the request functions
\* a request function that registers its listener first and publishes the
\* request event after
RequestListensFirst(method, sync) ==
    LET id == now
        r == Len(reqs) + 1
        st0 == [reqs |-> Append(reqs, [NewRequest(method, id) EXCEPT !.missed = sync]),
                listeners |-> On(listeners, r)]
        message == [id |-> id, params |-> sync]
        st1 == IF sync = "none" THEN st0 ELSE EmitResponse(message, st0)
    IN  /\ Len(reqs) < MaxReq
        /\ sync # "none" => published["response"] < MaxResp
        /\ reqs' = st1.reqs
        /\ listeners' = st1.listeners
        /\ published' = [published EXCEPT
                           ![method] = @ + 1,
                           !["response"] = IF sync = "none" THEN @ ELSE @ + 1]
        /\ lastResponse' = IF sync = "none" THEN lastResponse ELSE message
        /\ UNCHANGED now

\* The common body of getPasswordByNotification, pairSignerByNotification and
\* pairLedgerByNotification: read the clock, publish the request event, then
\* register the listener. A subscriber of the request topic runs inside emit,
\* before the listener exists; sync is the params of the response it
\* publishes there for this id ("none": it publishes nothing now).
Request(method, sync) ==
    LET id == now
        r == Len(reqs) + 1
        st0 == [reqs |-> reqs, listeners |-> listeners]
        message == [id |-> id, params |-> sync]
        st1 == IF sync = "none" THEN st0 ELSE EmitResponse(message, st0)
    IN  /\ Len(reqs) < MaxReq
        /\ sync # "none" => published["response"] < MaxResp
        /\ reqs' = Append(st1.reqs, [NewRequest(method, id) EXCEPT !.missed = sync])
        /\ listeners' = On(st1.listeners, r)
        /\ published' = [published EXCEPT
                           ![method] = @ + 1,
                           !["response"] = IF sync = "none" THEN @ ELSE @ + 1]
        /\ lastResponse' = IF sync = "none" THEN lastResponse ELSE message
        /\ UNCHANGED now

getPasswordByNotification(sync) == Request("getPassword", sync)

pairSignerByNotification(sync) == Request("signer", sync)

\* the ledger request published on the 'signer' topic
pairLedgerOnSignerTopic(sync) == Request("signer", sync)

pairLedgerByNotification(sync) == Request("ledger", sync)

SyncReplies == {"none"} \cup ParamValues

\* ------------------------------------------------------------ the Signers
PublicKeys == {"pkSigner", "pkLedger", "pkDeeplink", "pkNone", "pkPassword", "pkKeychain"}

\* getWalletAuthState(sdk.storage, publicKey): the wallet's auth kind
getWalletAuthState(pk) ==
    CASE pk = "pkSigner" -> "signer"
      [] pk = "pkLedger" -> "ledger"
      [] pk = "pkDeeplink" -> "signer-deeplink"
      [] pk = "pkNone" -> "none"
      [] pk = "pkPassword" -> "password"
      [] pk = "pkKeychain" -> "keychain"

\* callback.type of the Signer getSigner builds for an auth kind
\* every callback tagged 'cell'
SignerTypeAlwaysCell(kind) == "cell"

\* callback.type as the branch of getSigner that built the callback sets it
SignerType(kind) == IF kind = "ledger" THEN "ledger" ELSE "cell"

\* parseSignerSignature(result): the signature in protocol form, or a failure
\* for a string that holds no signature
parseSignerSignature(result) ==
    IF result = "str" THEN [pc |-> "returned", result |-> "signature"]
    ELSE [pc |-> "failed", result |-> "InvalidSignature"]

\* getWalletMnemonic(sdk.storage, publicKey, password): the stored secret,
\* decrypted; "str" stands for the wallet's password, any other string is a
\* wrong one
getWalletMnemonic(kind, password) ==
    IF kind = "none" \/ password = "str"
    THEN [pc |-> "done", result |-> "mnemonic"]
    ELSE [pc |-> "failed", result |-> "DecryptFailed"]

\* a getMnemonic call: who awaits it, where it is, the request it waits for,
\* the password it got, and how often it called getWalletMnemonic and
\* sdk.keychain.getPassword
NewSecret(pk, caller, pc, req) ==
    [pk |-> pk, caller |-> caller, pc |-> pc, req |-> req, password |-> "none",
     result |-> "none", decrypts |-> 0, keychainReads |-> 0]

NewInvocation(s, pc, req) ==
    [pk |-> s.pk, auth |-> s.auth, pc |-> pc, req |-> req, result |-> "none"]

\* ------------------------------------------------------- the connections
\* the wallets of the tracked standard-TON accounts, in the order of
\* accounts.flatMap(a => a.allTonWallets)
WalletOrder == <<"w1", "w2">>
Wallets == {WalletOrder[i] : i \in DOMAIN WalletOrder}

\* the wallets useActiveWallet() can return; "wx" is not a standard TON wallet
ActiveWallets == Wallets \cup {"wx"}

isStandardTonWallet(w) == w \in Wallets

SessionIds == 1..MaxSession
Urls == {"u1"}

\* an AccountConnection
Connections == [clientSessionId : SessionIds, webViewUrl : Urls]

NoConnection == [clientSessionId |-> 0, webViewUrl |-> "-"]

\* the argument of the mutation: an AccountConnection, or 'all'
One(c) == [all |-> FALSE, connection |-> c]
All == [all |-> TRUE, connection |-> NoConnection]

SessionIdsOf(connections) == {connections[i].clientSessionId : i \in DOMAIN connections}

\* getTonWalletConnections(storage, wallet)
getTonWalletConnections(storage, wallet) == storage[wallet]

\* setAccountConnection(storage, wallet, connections)
setAccountConnection(storage, wallet, connections) ==
    [storage EXCEPT ![wallet] = connections]

\* saveAccountConnection: the connection replaces the entry with its
\* clientSessionId, or is appended
saveAccountConnection(connections, c) ==
    IF c.clientSessionId \in SessionIdsOf(connections)
    THEN [i \in DOMAIN connections |->
            IF connections[i].clientSessionId = c.clientSessionId THEN c ELSE connections[i]]
    ELSE Append(connections, c)

\* connectionsToDisconnect computed after `connections` was reassigned
ConnectionsToDisconnectLate(target, connections) ==
    IF target.all THEN <<>> ELSE <<target.connection>>

\* connectionsToDisconnect taken from the entries found in the list
ConnectionsToDisconnectFound(target, connections) ==
    IF target.all THEN connections
    ELSE SelectSeq(connections, LAMBDA item :
             item.clientSessionId = target.connection.clientSessionId)

\* disconnectFromWallet: connectionsToDisconnect
ConnectionsToDisconnect(target, connections) ==
    IF target.all THEN connections ELSE <<target.connection>>

\* the filter with === for !==: it keeps what it should remove
RetainedInverted(target, connections) ==
    IF target.all THEN <<>>
    ELSE SelectSeq(connections, LAMBDA item :
             target.connection.clientSessionId = item.clientSessionId)

\* 'all' filtered like a single connection, with nothing to compare against
RetainedAllKeeps(target, connections) ==
    IF target.all THEN connections
    ELSE SelectSeq(connections, LAMBDA item :
             target.connection.clientSessionId # item.clientSessionId)

\* disconnectFromWallet: the list written back
Retained(target, connections) ==
    IF target.all THEN <<>>
    ELSE LET connectionsToDisconnect == ConnectionsToDisconnect(target, connections)
         IN  SelectSeq(connections, LAMBDA item :
                 \A i \in DOMAIN connectionsToDisconnect :
                     connectionsToDisconnect[i].clientSessionId # item.clientSessionId)

\* a disconnectFromWallet: where it is, the list it read and the list it
\* returns; missed records the calls that wrote the wallet's list between
\* this one's read and its write, readAfter the calls that had written it
\* when this one read
NoTask == [pc |-> "none", connections |-> <<>>, toDisconnect |-> <<>>, missed |-> {},
           readAfter |-> {}]

\* (await Promise.all(...)).flat(): the per-wallet lists, in wallet order
RECURSIVE Flat(_, _)
Flat(ts, i) ==
    IF i > Len(WalletOrder) THEN <<>>
    ELSE ts[WalletOrder[i]].toDisconnect \o Flat(ts, i + 1)

\* ---------------------------------------------------------------- actions
InitChan ==
    /\ now = 0
    /\ reqs = <<>>
    /\ listeners = <<>>
    /\ published = [t \in {"getPassword", "signer", "ledger", "response"} |-> 0]
    /\ lastResponse = NoMsg
    /\ signers = {}
    /\ invs = <<>>
    /\ txStored = {}
    /\ location = "app"
    /\ secrets = <<>>

InitConn ==
    /\ stored = [w \in ActiveWallets |-> <<>>]
    /\ calls = <<>>
    /\ tasks = <<>>
    /\ connects = <<>>

Init ==
    /\ InitChan
    /\ InitConn
    /\ targetEnv = "web"

\* a clock whose advance expires the requests that still wait
TickExpiresRequests ==
    /\ now < MaxClock
    /\ now' = now + 1
    /\ reqs' = [r \in DOMAIN reqs |->
                   IF reqs[r].state = "pending"
                   THEN [reqs[r] EXCEPT !.state = "rejected", !.value = "error", !.calls = @ + 1]
                   ELSE reqs[r]]
    /\ listeners' = <<>>
    /\ UNCHANGED <<published, lastResponse>>
    /\ UNCHANGED signerVars
    /\ UNCHANGED connVars

\* the clock advances
Tick ==
    /\ now < MaxClock
    /\ now' = now + 1
    /\ UNCHANGED <<reqs, listeners, published, lastResponse>>
    /\ UNCHANGED signerVars
    /\ UNCHANGED connVars

\* a caller asks for the password
GetPassword ==
    /\ \E sync \in SyncReplies : getPasswordByNotification(sync)
    /\ UNCHANGED signerVars
    /\ UNCHANGED connVars

\* a collaborator publishes {method: 'response', id, params}
Response(id, params) ==
    LET message == [id |-> id, params |-> params]
        st == EmitResponse(message, [reqs |-> reqs, listeners |-> listeners])
    IN  /\ published["response"] < MaxResp
        /\ reqs' = st.reqs
        /\ listeners' = st.listeners
        /\ published' = [published EXCEPT !["response"] = @ + 1]
        /\ lastResponse' = message
        /\ UNCHANGED now
        /\ UNCHANGED signerVars
        /\ UNCHANGED connVars

\* getSigner(sdk, publicKey) for a signer, ledger or signer-deeplink wallet
GetSigner(pk) ==
    LET kind == getWalletAuthState(pk)
    IN  /\ kind \in {"signer", "ledger", "signer-deeplink"}
        /\ Cardinality(signers) < MaxSigners
        /\ signers' = signers \cup {[pk |-> pk, auth |-> kind, type |-> SignerType(kind)]}
        /\ UNCHANGED <<invs, txStored, location, secrets>>
        /\ UNCHANGED chanVars
        /\ UNCHANGED connVars

\* the callback of a 'signer' wallet is called with a message
InvokeCellSigner(s, sync) ==
    /\ s.auth = "signer"
    /\ Len(invs) < MaxInv
    /\ pairSignerByNotification(sync)
    /\ invs' = Append(invs, NewInvocation(s, "await", Len(reqs) + 1))
    /\ UNCHANGED <<signers, txStored, location, secrets>>
    /\ UNCHANGED connVars

\* the callback of a 'ledger' wallet is called with a path and a transaction
InvokeLedgerSigner(s, sync) ==
    /\ s.auth = "ledger"
    /\ Len(invs) < MaxInv
    /\ pairLedgerByNotification(sync)
    /\ invs' = Append(invs, NewInvocation(s, "await", Len(reqs) + 1))
    /\ UNCHANGED <<signers, txStored, location, secrets>>
    /\ UNCHANGED connVars

\* a deep-link callback that pairs over the 'signer' topic like the QR signer
InvokeDeeplinkViaChannel(s) ==
    /\ s.auth = "signer-deeplink"
    /\ Len(invs) < MaxInv
    /\ pairSignerByNotification("none")
    /\ invs' = Append(invs, NewInvocation(s, "await", Len(reqs) + 1))
    /\ UNCHANGED <<signers, txStored, location, secrets>>
    /\ UNCHANGED connVars

\* the callback of a 'signer-deeplink' wallet is called with a message: it
\* waits for storeTransactionAndCreateDeepLink
InvokeDeeplinkSigner(s) ==
    /\ s.auth = "signer-deeplink"
    /\ Len(invs) < MaxInv
    /\ invs' = Append(invs, NewInvocation(s, "store", 0))
    /\ UNCHANGED <<signers, txStored, location, secrets>>
    /\ UNCHANGED chanVars
    /\ UNCHANGED connVars

\* the transaction is persisted, the deep link is built and assigned to
\* window.location; the callback then waits for delay(2000)
StoreAndNavigate(i) ==
    /\ invs[i].pc = "store"
    /\ txStored' = txStored \cup {invs[i].pk}
    /\ location' = "deeplink"
    /\ invs' = [invs EXCEPT ![i].pc = "delay"]
    /\ UNCHANGED <<signers, secrets>>
    /\ UNCHANGED chanVars
    /\ UNCHANGED connVars

\* delay(2000) is over: throw new Error('Navigate to deeplink')
DelayElapsed(i) ==
    /\ invs[i].pc = "delay"
    /\ invs' = [invs EXCEPT ![i].pc = "failed", ![i].result = "NavigateToDeeplink"]
    /\ UNCHANGED <<signers, txStored, location, secrets>>
    /\ UNCHANGED chanVars
    /\ UNCHANGED connVars

\* the continuation of `await pairSignerByNotification(...)` /
\* the promise pairLedgerByNotification returned has settled
SignerContinue(i) ==
    LET req == reqs[invs[i].req]
    IN  /\ invs[i].pc = "await"
        /\ req.state # "pending"
        /\ invs' = [invs EXCEPT ![i] =
               IF req.state = "rejected"
               THEN [@ EXCEPT !.pc = "failed", !.result = req.value]
               ELSE IF @.auth = "signer"
                    THEN [@ EXCEPT !.pc = parseSignerSignature(req.value).pc,
                                   !.result = parseSignerSignature(req.value).result]
                    ELSE [@ EXCEPT !.pc = "returned", !.result = req.value]]
        /\ UNCHANGED <<signers, txStored, location, secrets>>
        /\ UNCHANGED chanVars
        /\ UNCHANGED connVars

\* a 'signer' Signer's callback asks for a signature (its own progress is
\* followed in SpecSigner)
PairSigner ==
    /\ \E sync \in SyncReplies : pairSignerByNotification(sync)
    /\ UNCHANGED signerVars
    /\ UNCHANGED connVars

\* a 'ledger' Signer's callback asks for a signed transaction
PairLedger ==
    /\ \E sync \in SyncReplies : pairLedgerByNotification(sync)
    /\ UNCHANGED signerVars
    /\ UNCHANGED connVars

AnyResponse == \E id \in Ids \cup {NoId}, params \in ParamValues : Response(id, params)

vars == <<now, reqs, listeners, published, lastResponse, signers, invs, txStored,
          location, secrets, targetEnv, stored, calls, tasks, connects>>

\* the channel: the three request functions, the clock and the responses
Next ==
    \/ Tick
    \/ GetPassword
    \/ PairSigner
    \/ PairLedger
    \/ AnyResponse

Spec == Init /\ [][Next]_vars

\* the Signers: getSigner, the callbacks it returns and their continuations
NextSigner ==
    \/ Tick
    \/ AnyResponse
    \/ \E pk \in PublicKeys : GetSigner(pk)
    \/ \E s \in signers, sync \in SyncReplies : InvokeCellSigner(s, sync)
    \/ \E s \in signers, sync \in SyncReplies : InvokeLedgerSigner(s, sync)
    \/ \E s \in signers : InvokeDeeplinkSigner(s)
    \/ \E i \in DOMAIN invs : StoreAndNavigate(i)
    \/ \E i \in DOMAIN invs : DelayElapsed(i)
    \/ \E i \in DOMAIN invs : SignerContinue(i)

SpecSigner == Init /\ [][NextSigner]_vars

\* the event loop runs the continuation of a storage write that completed and
\* of a timer that expired
SpecSignerFair ==
    /\ SpecSigner
    /\ WF_vars(\E i \in DOMAIN invs : StoreAndNavigate(i))
    /\ WF_vars(\E i \in DOMAIN invs : DelayElapsed(i))

\* -------------------------------------------------- connection actions
CallLimit == IF targetEnv = "extension" THEN MaxExtCalls ELSE MaxCalls

\* a dApp connection is saved for wallet w
SaveConnection(w, c) ==
    LET connections == saveAccountConnection(getTonWalletConnections(stored, w), c)
    IN  /\ Len(connections) <= MaxConn
        /\ stored' = setAccountConnection(stored, w, connections)
        /\ UNCHANGED <<targetEnv, calls, tasks, connects>>
        /\ UNCHANGED chanVars
        /\ UNCHANGED signerVars

\* the disconnect mutation is called with the active wallet `wallet`: it
\* throws for a wallet that is not a standard TON wallet
DisconnectRefused(wallet, target) ==
    /\ Len(calls) < CallLimit
    /\ ~isStandardTonWallet(wallet)
    /\ calls' = Append(calls, [wallet |-> wallet, target |-> target, pc |-> "failed",
                               result |-> <<>>, notifications |-> FALSE, unsub |-> <<>>])
    /\ tasks' = Append(tasks, [w \in Wallets |-> NoTask])
    /\ UNCHANGED <<targetEnv, stored, connects>>
    /\ UNCHANGED chanVars
    /\ UNCHANGED signerVars

\* a mutation that disconnects the active wallet only, whatever the build
DisconnectActiveOnly(wallet, target) ==
    /\ Len(calls) < CallLimit
    /\ isStandardTonWallet(wallet)
    /\ calls' = Append(calls, [wallet |-> wallet, target |-> target, pc |-> "run",
                               result |-> <<>>, notifications |-> FALSE, unsub |-> <<>>])
    /\ tasks' = Append(tasks, [w \in Wallets |->
                   IF w = wallet THEN [NoTask EXCEPT !.pc = "read"] ELSE NoTask])
    /\ UNCHANGED <<targetEnv, stored, connects>>
    /\ UNCHANGED chanVars
    /\ UNCHANGED signerVars

\* the disconnect mutation is called: disconnectFromWallet starts for the
\* active wallet, in extension mode for every wallet
Disconnect(wallet, target) ==
    /\ Len(calls) < CallLimit
    /\ isStandardTonWallet(wallet)
    /\ calls' = Append(calls, [wallet |-> wallet, target |-> target, pc |-> "run",
                               result |-> <<>>, notifications |-> FALSE, unsub |-> <<>>])
    /\ tasks' = Append(tasks, [w \in Wallets |->
                   IF targetEnv = "extension" \/ w = wallet
                   THEN [NoTask EXCEPT !.pc = "read"] ELSE NoTask])
    /\ UNCHANGED <<targetEnv, stored, connects>>
    /\ UNCHANGED chanVars
    /\ UNCHANGED signerVars

\* disconnectFromWallet: getTonWalletConnections has read the wallet's list
ReadConnections(p, w) ==
    /\ tasks[p][w].pc = "read"
    /\ tasks' = [tasks EXCEPT ![p][w].pc = "write",
                              ![p][w].connections = getTonWalletConnections(stored, w),
                              ![p][w].readAfter =
                                  {q \in DOMAIN tasks : tasks[q][w].pc = "done"}]
    /\ UNCHANGED <<targetEnv, stored, calls, connects>>
    /\ UNCHANGED chanVars
    /\ UNCHANGED signerVars

\* a disconnectFromWallet that filters the list as stored at the write, as
\* it would under a per-wallet lock
WriteConnectionsFresh(p, w) ==
    LET t == tasks[p][w]
        target == calls[p].target
    IN  /\ t.pc = "write"
        /\ stored' = setAccountConnection(stored, w, Retained(target, stored[w]))
        /\ tasks' = [q \in DOMAIN tasks |-> [x \in Wallets |->
                       IF q = p /\ x = w
                       THEN [t EXCEPT !.pc = "done",
                                      !.toDisconnect =
                                          ConnectionsToDisconnect(target, t.connections)]
                       ELSE IF x = w /\ tasks[q][x].pc = "write"
                            THEN [tasks[q][x] EXCEPT !.missed = @ \cup {p}]
                            ELSE tasks[q][x]]]
        /\ UNCHANGED <<targetEnv, calls, connects>>
        /\ UNCHANGED chanVars
        /\ UNCHANGED signerVars

\* disconnectFromWallet: setAccountConnection writes the filtered list and
\* the function returns connectionsToDisconnect
WriteConnections(p, w) ==
    LET t == tasks[p][w]
        target == calls[p].target
    IN  /\ t.pc = "write"
        /\ stored' = setAccountConnection(stored, w, Retained(target, t.connections))
        /\ tasks' = [q \in DOMAIN tasks |-> [x \in Wallets |->
                       IF q = p /\ x = w
                       THEN [t EXCEPT !.pc = "done",
                                      !.toDisconnect =
                                          ConnectionsToDisconnect(target, t.connections)]
                       ELSE IF x = w /\ tasks[q][x].pc = "write"
                            THEN [tasks[q][x] EXCEPT !.missed = @ \cup {p}]
                            ELSE tasks[q][x]]]
        /\ UNCHANGED <<targetEnv, calls, connects>>
        /\ UNCHANGED chanVars
        /\ UNCHANGED signerVars

\* disconnectFromWallet: setAccountConnection rejects, nothing is written and
\* the function throws
WriteRejected(p, w) ==
    /\ tasks[p][w].pc = "write"
    /\ tasks' = [tasks EXCEPT ![p][w].pc = "failed"]
    /\ UNCHANGED <<targetEnv, stored, calls, connects>>
    /\ UNCHANGED chanVars
    /\ UNCHANGED signerVars

\* a disconnectFromWallet of the call has thrown: the await in the mutation
\* throws and the mutation fails (the other disconnectFromWallet of a
\* Promise.all keep running)
FinishRejected(p) ==
    /\ calls[p].pc = "run"
    /\ \E w \in Wallets : tasks[p][w].pc = "failed"
    /\ calls' = [calls EXCEPT ![p].pc = "failed"]
    /\ UNCHANGED <<targetEnv, stored, tasks, connects>>
    /\ UNCHANGED chanVars
    /\ UNCHANGED signerVars

\* every disconnectFromWallet of the call has returned: the mutation has its
\* connectionsToDisconnect
Finish(p) ==
    /\ calls[p].pc = "run"
    /\ \A w \in Wallets : tasks[p][w].pc \in {"none", "done"}
    /\ calls' = [calls EXCEPT ![p].pc = "done",
                              ![p].result = IF targetEnv = "extension"
                                            THEN Flat(tasks[p], 1)
                                            ELSE tasks[p][calls[p].wallet].toDisconnect]
    /\ UNCHANGED <<targetEnv, stored, tasks, connects>>
    /\ UNCHANGED chanVars
    /\ UNCHANGED signerVars

\* sdk.notifications.unsubscribeTonConnect(clientSessionId): the promise it
\* returns is rejected for the ids of `failing`
unsubscribeTonConnect(clientSessionId, failing) ==
    [clientSessionId |-> clientSessionId, ok |-> clientSessionId \notin failing]

\* an unsubscription whose rejection is not caught fails the Promise.all
UnsubscribeUncaught(p, present, failing) ==
    LET attempts == [i \in DOMAIN calls[p].result |->
                        unsubscribeTonConnect(calls[p].result[i].clientSessionId, failing)]
    IN  /\ calls[p].pc = "done"
        /\ calls' = [calls EXCEPT
               ![p].pc = IF present /\ \E i \in DOMAIN attempts : ~attempts[i].ok
                         THEN "failed" ELSE "settled",
               ![p].notifications = present,
               ![p].unsub = IF present THEN attempts ELSE <<>>]
        /\ UNCHANGED <<targetEnv, stored, tasks, connects>>
        /\ UNCHANGED chanVars
        /\ UNCHANGED signerVars

\* the rest of the mutation: with sdk.notifications present one
\* unsubscribeTonConnect per entry of connectionsToDisconnect, each rejection
\* caught and logged, then the queries are invalidated and the mutation
\* succeeds
Unsubscribe(p, present, failing) ==
    LET attempts == [i \in DOMAIN calls[p].result |->
                        unsubscribeTonConnect(calls[p].result[i].clientSessionId, failing)]
    IN  /\ calls[p].pc = "done"
        /\ calls' = [calls EXCEPT ![p].pc = "settled",
                                  ![p].notifications = present,
                                  ![p].unsub = IF present THEN attempts ELSE <<>>]
        /\ UNCHANGED <<targetEnv, stored, tasks, connects>>
        /\ UNCHANGED chanVars
        /\ UNCHANGED signerVars

Targets == {All} \cup {One(c) : c \in Connections}

NextConn ==
    \/ \E w \in Wallets, c \in Connections : SaveConnection(w, c)
    \/ \E w \in ActiveWallets, target \in Targets : DisconnectRefused(w, target)
    \/ \E w \in ActiveWallets, target \in Targets : Disconnect(w, target)
    \/ \E p \in DOMAIN calls, w \in Wallets : ReadConnections(p, w)
    \/ \E p \in DOMAIN calls, w \in Wallets : WriteConnections(p, w)
    \/ \E p \in DOMAIN calls, w \in Wallets : WriteRejected(p, w)
    \/ \E p \in DOMAIN calls : Finish(p)
    \/ \E p \in DOMAIN calls : FinishRejected(p)
    \/ \E p \in DOMAIN calls, present \in BOOLEAN, failing \in SUBSET SessionIds :
          Unsubscribe(p, present, failing)

\* the web and desktop builds: sdk.targetEnv is not 'extension'
SpecConn == Init /\ [][NextConn]_vars

InitExt ==
    /\ InitChan
    /\ InitConn
    /\ targetEnv = "extension"

\* the extension build
SpecExt == InitExt /\ [][NextConn]_vars

\* ------------------------------------------------------- connect actions
ItemNames == {"ton_addr", "ton_proof"}

\* request.items
ItemLists == UNION {[1..n -> ItemNames] : n \in 1..MaxItems}

\* a connect that persists the connection before it builds the replies
ConnectSavesFirst(wallet, ledger, items, c) ==
    LET connections == saveAccountConnection(getTonWalletConnections(stored, wallet), c)
    IN  /\ Len(connects) < MaxConnects
        /\ Len(connections) <= MaxConn
        /\ connects' = Append(connects,
               [wallet |-> wallet, ledger |-> ledger, items |-> items, connection |-> c,
                pc |-> "items", i |-> 1, replies |-> <<>>, saved |-> TRUE,
                push |-> "none", error |-> "none"])
        /\ stored' = setAccountConnection(stored, wallet, connections)
        /\ UNCHANGED <<targetEnv, calls, tasks>>
        /\ UNCHANGED chanVars
        /\ UNCHANGED signerVars

\* the connect mutation is called for the active wallet with a request and
\* getTonConnectParams has answered; ledger is activeIsLedger, c carries
\* params.clientSessionId and webViewUrl
Connect(wallet, ledger, items, c) ==
    /\ Len(connects) < MaxConnects
    /\ connects' = Append(connects,
           [wallet |-> wallet, ledger |-> ledger, items |-> items, connection |-> c,
            pc |-> "items", i |-> 1, replies |-> <<>>, saved |-> FALSE,
            push |-> "none", error |-> "none"])
    /\ UNCHANGED <<targetEnv, stored, calls, tasks>>
    /\ UNCHANGED chanVars
    /\ UNCHANGED signerVars

\* the loop reaches a ton_addr item: its reply is pushed
ItemAddress(k) ==
    LET x == connects[k]
    IN  /\ x.pc = "items"
        /\ x.i <= Len(x.items)
        /\ x.items[x.i] = "ton_addr"
        /\ connects' = [connects EXCEPT ![k].replies = Append(@, "ton_addr"),
                                        ![k].i = @ + 1]
        /\ UNCHANGED <<targetEnv, stored, calls, tasks>>
        /\ UNCHANGED chanVars
        /\ UNCHANGED signerVars

\* the loop reaches a ton_proof item: it throws for a wallet that is not a
\* standard TON wallet and for a ledger account, and waits for getServerTime
\* otherwise
ItemProof(k) ==
    LET x == connects[k]
    IN  /\ x.pc = "items"
        /\ x.i <= Len(x.items)
        /\ x.items[x.i] = "ton_proof"
        /\ connects' = [connects EXCEPT ![k] =
               IF ~isStandardTonWallet(x.wallet) \/ x.ledger
               THEN [@ EXCEPT !.pc = "failed", !.error = "TxConfirmationCustomError"]
               ELSE [@ EXCEPT !.pc = "time"]]
        /\ UNCHANGED <<targetEnv, stored, calls, tasks>>
        /\ UNCHANGED chanVars
        /\ UNCHANGED signerVars

\* getServerTime(api) has answered, or failed
ServerTime(k, ok) ==
    /\ connects[k].pc = "time"
    /\ connects' = [connects EXCEPT ![k] =
           IF ok THEN [@ EXCEPT !.pc = "proof"]
           ELSE [@ EXCEPT !.pc = "failed", !.error = "ServerTimeFailed"]]
    /\ UNCHANGED <<targetEnv, stored, calls, tasks>>
    /\ UNCHANGED chanVars
    /\ UNCHANGED signerVars

\* toTonProofItemReply has answered with the signed proof, or signTonConnect
\* has rejected
ProofReply(k, signed) ==
    /\ connects[k].pc = "proof"
    /\ connects' = [connects EXCEPT ![k] =
           IF signed
           THEN [@ EXCEPT !.pc = "items", !.replies = Append(@, "ton_proof"), !.i = @ + 1]
           ELSE [@ EXCEPT !.pc = "failed", !.error = "SignerRejected"]]
    /\ UNCHANGED <<targetEnv, stored, calls, tasks>>
    /\ UNCHANGED chanVars
    /\ UNCHANGED signerVars

\* the loop is over: saveAccountConnection persists the connection
ConnectSave(k) ==
    LET x == connects[k]
        connections == saveAccountConnection(getTonWalletConnections(stored, x.wallet),
                                             x.connection)
    IN  /\ x.pc = "items"
        /\ x.i > Len(x.items)
        /\ Len(connections) <= MaxConn
        /\ stored' = setAccountConnection(stored, x.wallet, connections)
        /\ connects' = [connects EXCEPT ![k].pc = "notify", ![k].saved = TRUE]
        /\ UNCHANGED <<targetEnv, calls, tasks>>
        /\ UNCHANGED chanVars
        /\ UNCHANGED signerVars

\* saveAccountConnection rejects: nothing is written and the mutation fails
ConnectSaveRejected(k) ==
    LET x == connects[k]
    IN  /\ x.pc = "items"
        /\ x.i > Len(x.items)
        /\ connects' = [connects EXCEPT ![k].pc = "failed", ![k].error = "SaveFailed"]
        /\ UNCHANGED <<targetEnv, stored, calls, tasks>>
        /\ UNCHANGED chanVars
        /\ UNCHANGED signerVars

\* what the push step can come to: no sdk.notifications, subscribed() false,
\* subscribed() throws, subscribeTonConnect called and answered, or called and
\* thrown (caught, topMessage)
PushOutcomes == {"absent", "disabled", "subscribedFailed", "requested", "requestFailed"}

\* the rest of the mutation: the push subscription, the queries invalidated,
\* the replies returned
ConnectNotify(k, outcome) ==
    /\ connects[k].pc = "notify"
    /\ connects' = [connects EXCEPT ![k].pc = "done", ![k].push = outcome]
    /\ UNCHANGED <<targetEnv, stored, calls, tasks>>
    /\ UNCHANGED chanVars
    /\ UNCHANGED signerVars

NextConnect ==
    \/ \E wallet \in ActiveWallets, ledger \in BOOLEAN, items \in ItemLists,
          c \in Connections : Connect(wallet, ledger, items, c)
    \/ \E k \in DOMAIN connects : ItemAddress(k)
    \/ \E k \in DOMAIN connects : ItemProof(k)
    \/ \E k \in DOMAIN connects, ok \in BOOLEAN : ServerTime(k, ok)
    \/ \E k \in DOMAIN connects, signed \in BOOLEAN : ProofReply(k, signed)
    \/ \E k \in DOMAIN connects : ConnectSave(k)
    \/ \E k \in DOMAIN connects : ConnectSaveRejected(k)
    \/ \E k \in DOMAIN connects, outcome \in PushOutcomes : ConnectNotify(k, outcome)

\* useConnectTonConnectAppMutation
SpecConnect == Init /\ [][NextConnect]_vars

\* ------------------------------------------------------ getMnemonic actions
Callers == {"getSigner", "direct"}

\* getMnemonic for auth kind 'none': it waits for getWalletMnemonic
GetMnemonicNone(pk, caller) ==
    /\ getWalletAuthState(pk) = "none"
    /\ Len(secrets) < MaxSecrets
    /\ secrets' = Append(secrets, NewSecret(pk, caller, "decrypt", 0))
    /\ UNCHANGED <<signers, invs, txStored, location>>
    /\ UNCHANGED chanVars
    /\ UNCHANGED connVars

\* getMnemonic for auth kind 'password': it waits for getPasswordByNotification
GetMnemonicPassword(pk, caller, sync) ==
    /\ getWalletAuthState(pk) = "password"
    /\ Len(secrets) < MaxSecrets
    /\ getPasswordByNotification(sync)
    /\ secrets' = Append(secrets, NewSecret(pk, caller, "await", Len(reqs) + 1))
    /\ UNCHANGED <<signers, invs, txStored, location>>
    /\ UNCHANGED connVars

\* getMnemonic for auth kind 'keychain': it throws when sdk.keychain is
\* undefined and waits for sdk.keychain.getPassword otherwise
GetMnemonicKeychain(pk, caller, present) ==
    /\ getWalletAuthState(pk) = "keychain"
    /\ Len(secrets) < MaxSecrets
    /\ secrets' = Append(secrets,
                     IF present THEN NewSecret(pk, caller, "keychain", 0)
                     ELSE [NewSecret(pk, caller, "failed", 0)
                              EXCEPT !.result = "KeychainUndefined"])
    /\ UNCHANGED <<signers, invs, txStored, location>>
    /\ UNCHANGED chanVars
    /\ UNCHANGED connVars

\* a getMnemonic that falls back to the password prompt for the other kinds
GetMnemonicUnexpectedPrompts(pk) ==
    /\ getWalletAuthState(pk) \notin {"none", "password", "keychain"}
    /\ Len(secrets) < MaxSecrets
    /\ getPasswordByNotification("none")
    /\ secrets' = Append(secrets, NewSecret(pk, "direct", "await", Len(reqs) + 1))
    /\ UNCHANGED <<signers, invs, txStored, location>>
    /\ UNCHANGED connVars

\* getMnemonic for any other auth kind: throw new Error('Unexpected auth method')
GetMnemonicUnexpected(pk) ==
    /\ getWalletAuthState(pk) \notin {"none", "password", "keychain"}
    /\ Len(secrets) < MaxSecrets
    /\ secrets' = Append(secrets, [NewSecret(pk, "direct", "failed", 0)
                                      EXCEPT !.result = "UnexpectedAuthMethod"])
    /\ UNCHANGED <<signers, invs, txStored, location>>
    /\ UNCHANGED chanVars
    /\ UNCHANGED connVars

\* a continuation that hands whatever the prompt settled with to
\* getWalletMnemonic
PasswordContinueSwallowsRejection(m) ==
    LET req == reqs[secrets[m].req]
    IN  /\ secrets[m].pc = "await"
        /\ req.state # "pending"
        /\ secrets' = [secrets EXCEPT ![m] = [@ EXCEPT !.pc = "decrypt", !.password = req.value]]
        /\ UNCHANGED <<signers, invs, txStored, location>>
        /\ UNCHANGED chanVars
        /\ UNCHANGED connVars

\* the continuation of `await getPasswordByNotification(sdk, auth)`: a
\* rejection leaves getMnemonic, a password goes on to getWalletMnemonic
PasswordContinue(m) ==
    LET req == reqs[secrets[m].req]
    IN  /\ secrets[m].pc = "await"
        /\ req.state # "pending"
        /\ secrets' = [secrets EXCEPT ![m] =
               IF req.state = "rejected"
               THEN [@ EXCEPT !.pc = "failed", !.result = req.value]
               ELSE [@ EXCEPT !.pc = "decrypt", !.password = req.value]]
        /\ UNCHANGED <<signers, invs, txStored, location>>
        /\ UNCHANGED chanVars
        /\ UNCHANGED connVars

\* getWalletMnemonic(sdk.storage, publicKey, password) has answered
MnemonicDecrypt(m) ==
    LET out == getWalletMnemonic(getWalletAuthState(secrets[m].pk), secrets[m].password)
    IN  /\ secrets[m].pc = "decrypt"
        /\ secrets' = [secrets EXCEPT ![m].pc = out.pc, ![m].result = out.result,
                                      ![m].decrypts = @ + 1]
        /\ UNCHANGED <<signers, invs, txStored, location>>
        /\ UNCHANGED chanVars
        /\ UNCHANGED connVars

\* sdk.keychain.getPassword(publicKey) has answered: the secret, or a failure
\* when the keychain holds no entry for the key
KeychainRead(m, found) ==
    /\ secrets[m].pc = "keychain"
    /\ secrets' = [secrets EXCEPT
                      ![m].pc = IF found THEN "done" ELSE "failed",
                      ![m].result = IF found THEN "mnemonic" ELSE "SecretNotFound",
                      ![m].keychainReads = @ + 1]
    /\ UNCHANGED <<signers, invs, txStored, location>>
    /\ UNCHANGED chanVars
    /\ UNCHANGED connVars

\* getSigner, default branch: getMnemonic has returned, the callback is built
\* around the mnemonic and returned
BuildSigner(m) ==
    LET pk == secrets[m].pk
        kind == getWalletAuthState(pk)
    IN  /\ secrets[m].pc = "done"
        /\ secrets[m].caller = "getSigner"
        /\ Cardinality(signers) < MaxSigners
        /\ secrets' = [secrets EXCEPT ![m].pc = "built"]
        /\ signers' = signers \cup {[pk |-> pk, auth |-> kind, type |-> SignerType(kind)]}
        /\ UNCHANGED <<invs, txStored, location>>
        /\ UNCHANGED chanVars
        /\ UNCHANGED connVars

\* a callback that asks for the password each time it is called
InvokeMnemonicSignerPrompts(s) ==
    /\ s.auth \in {"none", "password", "keychain"}
    /\ Len(invs) < MaxInv
    /\ getPasswordByNotification("none")
    /\ invs' = Append(invs, NewInvocation(s, "await", Len(reqs) + 1))
    /\ UNCHANGED <<signers, txStored, location, secrets>>
    /\ UNCHANGED connVars

\* the callback of a 'none', 'password' or 'keychain' wallet is called with a
\* message: mnemonicToPrivateKey, then sign(message.hash(), secretKey)
InvokeMnemonicSigner(s) ==
    /\ s.auth \in {"none", "password", "keychain"}
    /\ Len(invs) < MaxInv
    /\ invs' = Append(invs, [NewInvocation(s, "returned", 0) EXCEPT !.result = "signature"])
    /\ UNCHANGED <<signers, txStored, location, secrets>>
    /\ UNCHANGED chanVars
    /\ UNCHANGED connVars

\* getMnemonic, getSigner for every auth kind, and the callbacks built around
\* a mnemonic (the callbacks that go over the bus are followed in SpecSigner)
NextSecret ==
    \/ Tick
    \/ AnyResponse
    \/ \E pk \in PublicKeys : GetSigner(pk)
    \/ \E pk \in PublicKeys, caller \in Callers : GetMnemonicNone(pk, caller)
    \/ \E pk \in PublicKeys, caller \in Callers, sync \in SyncReplies :
          GetMnemonicPassword(pk, caller, sync)
    \/ \E pk \in PublicKeys, caller \in Callers, present \in BOOLEAN :
          GetMnemonicKeychain(pk, caller, present)
    \/ \E pk \in PublicKeys : GetMnemonicUnexpected(pk)
    \/ \E m \in DOMAIN secrets : PasswordContinue(m)
    \/ \E m \in DOMAIN secrets : MnemonicDecrypt(m)
    \/ \E m \in DOMAIN secrets, found \in BOOLEAN : KeychainRead(m, found)
    \/ \E m \in DOMAIN secrets : BuildSigner(m)
    \/ \E s \in signers : InvokeMnemonicSigner(s)

SpecSecret == Init /\ [][NextSecret]_vars

\* getSigner for every auth kind together with every callback it returns
NextGetSigner ==
    \/ Tick
    \/ AnyResponse
    \/ \E pk \in PublicKeys : GetSigner(pk)
    \/ \E pk \in PublicKeys : GetMnemonicNone(pk, "getSigner")
    \/ \E pk \in PublicKeys, sync \in SyncReplies : GetMnemonicPassword(pk, "getSigner", sync)
    \/ \E pk \in PublicKeys, present \in BOOLEAN : GetMnemonicKeychain(pk, "getSigner", present)
    \/ \E m \in DOMAIN secrets : PasswordContinue(m)
    \/ \E m \in DOMAIN secrets : MnemonicDecrypt(m)
    \/ \E m \in DOMAIN secrets, found \in BOOLEAN : KeychainRead(m, found)
    \/ \E m \in DOMAIN secrets : BuildSigner(m)
    \/ \E s \in signers : InvokeMnemonicSigner(s)
    \/ \E s \in signers, sync \in SyncReplies : InvokeCellSigner(s, sync)
    \/ \E s \in signers, sync \in SyncReplies : InvokeLedgerSigner(s, sync)
    \/ \E s \in signers : InvokeDeeplinkSigner(s)
    \/ \E i \in DOMAIN invs : StoreAndNavigate(i)
    \/ \E i \in DOMAIN invs : DelayElapsed(i)
    \/ \E i \in DOMAIN invs : SignerContinue(i)

SpecGetSigner == Init /\ [][NextGetSigner]_vars

\* ================================================================ claims
Pending(rs) == {r \in DOMAIN rs : rs[r].state = "pending"}

Listening(r, ls) == \E i \in DOMAIN ls : ls[i] = r

ListenerCount(r, ls) == Cardinality({i \in DOMAIN ls : ls[i] = r})

\* this step published an event on 'response'; the event is lastResponse'
ResponsePublished == published'["response"] = published["response"] + 1

StringValues == {"str", "emptystr"}

\* C1: no cross-resolution. A step that publishes a response with id i leaves
\* every request issued with another id as it was, pending ones still
\* listening; and when the outstanding ids are pairwise different, at most
\* one request is settled by the event, the one issued with id i.
C1_NoCrossResolution ==
    [][ResponsePublished =>
          /\ \A r \in DOMAIN reqs :
                reqs[r].id # lastResponse'.id =>
                    /\ reqs'[r] = reqs[r]
                    /\ ListenerCount(r, listeners') = ListenerCount(r, listeners)
          /\ (\A r1, r2 \in Pending(reqs) : r1 # r2 => reqs[r1].id # reqs[r2].id) =>
                /\ Cardinality({r \in DOMAIN reqs : reqs'[r] # reqs[r]}) <= 1
                /\ \A r \in DOMAIN reqs :
                      reqs'[r] # reqs[r] =>
                          /\ reqs[r].id = lastResponse'.id
                          /\ reqs'[r].settledBy = reqs[r].id
       ]_vars

\* two requests with different ids were outstanding, a response settled one
\* of them and the other is still pending with its listener
C1_Witness ==
    \E r1, r2 \in DOMAIN reqs :
        /\ reqs[r1].id # reqs[r2].id
        /\ reqs[r1].state # "pending"
        /\ reqs[r1].settledBy = reqs[r1].id
        /\ reqs[r2].state = "pending"
        /\ Listening(r2, listeners)
        /\ lastResponse.id = reqs[r1].id

\* C2: the ids of the outstanding requests listening on 'response' are
\* pairwise distinct, so that no response event settles two of them.
C2_OutstandingIdsDistinct ==
    \A r1, r2 \in Pending(reqs) :
        (r1 # r2 /\ Listening(r1, listeners) /\ Listening(r2, listeners))
            => reqs[r1].id # reqs[r2].id

\* C6: one-shot listener. Every request's resolve/reject is called at most
\* once, a pending request has exactly one listener and a settled one none
\* (so the listeners are as many as the unsettled requests), and a response
\* published after a request was settled does not change it.
C6_OneShotListener ==
    /\ [](/\ \A r \in DOMAIN reqs :
              /\ reqs[r].calls <= 1
              /\ ListenerCount(r, listeners) = IF reqs[r].state = "pending" THEN 1 ELSE 0
          /\ Len(listeners) = Cardinality(Pending(reqs)))
    /\ [][ResponsePublished =>
             \A r \in DOMAIN reqs : reqs[r].state # "pending" => reqs'[r] = reqs[r]]_vars

\* a request was settled and a later response carried its id again
C6_Witness ==
    \E r \in DOMAIN reqs :
        /\ reqs[r].state # "pending"
        /\ reqs[r].calls = 1
        /\ lastResponse.id = reqs[r].id
        /\ lastResponse.params # reqs[r].value
        /\ ~Listening(r, listeners)

\* C7: a ledger request is resolved only with the object-shaped signed
\* result; an Error object, a string or an empty value rejects it. (Stated
\* for a request whose id no other request shares.)
C7_LedgerResolvesOnlySignedResult ==
    \A r \in DOMAIN reqs :
        (reqs[r].method = "ledger" /\ \A r2 \in DOMAIN reqs : r2 # r => reqs[r2].id # reqs[r].id) =>
            /\ reqs[r].state = "resolved" => reqs[r].value = "cell"
            /\ reqs[r].value \in {"error", "str", "emptystr", "null", "undefined"}
                   => reqs[r].state = "rejected"

\* C8: on the getPassword and signer channels a response with the request's
\* id resolves it with params exactly when params is a string and rejects it
\* with params otherwise, removing the listener; a response with another id
\* changes neither the promise nor the listener.
C8_StringResolvesElseRejects ==
    [][ResponsePublished =>
          \A r \in Pending(reqs) :
              reqs[r].method \in {"getPassword", "signer"} =>
                  IF lastResponse'.id = reqs[r].id
                  THEN /\ reqs'[r].value = lastResponse'.params
                       /\ reqs'[r].state = IF lastResponse'.params \in StringValues
                                           THEN "resolved" ELSE "rejected"
                       /\ ~Listening(r, listeners')
                  ELSE /\ reqs'[r] = reqs[r]
                       /\ Listening(r, listeners')
       ]_vars

\* a signer request rejected with an object, a getPassword request resolved
\* with the empty string
C8_Witness ==
    \E r1, r2 \in DOMAIN reqs :
        /\ reqs[r1].method = "signer"
        /\ reqs[r1].state = "rejected"
        /\ reqs[r1].value = "cell"
        /\ reqs[r2].method = "getPassword"
        /\ reqs[r2].state = "resolved"
        /\ reqs[r2].value = "emptystr"

InvsOf(kind) == {i \in DOMAIN invs : invs[i].auth = kind}

Settled(i) == invs[i].pc \in {"returned", "failed"}

\* C9: every invocation of a ledger Signer has published one event on
\* 'ledger' and every invocation of a signer Signer one event on 'signer',
\* and nothing else was published on a request topic; an invocation that has
\* settled did so on its own request, settled by a response carrying the id
\* that request was issued with.
C9_OneEventAndOwnResponse ==
    /\ published["ledger"] = Cardinality(InvsOf("ledger"))
    /\ published["signer"] = Cardinality(InvsOf("signer"))
    /\ published["getPassword"] = 0
    /\ \A i \in InvsOf("ledger") \cup InvsOf("signer") :
          /\ invs[i].req \in DOMAIN reqs
          /\ reqs[invs[i].req].method = invs[i].auth
          /\ \A j \in DOMAIN invs : j # i => invs[j].req # invs[i].req
          /\ Settled(i) =>
                /\ reqs[invs[i].req].state # "pending"
                /\ reqs[invs[i].req].settledBy = reqs[invs[i].req].id
                /\ published["response"] >= 1

\* a ledger invocation returned the signed result although a response with
\* another id was published as well, while a signer invocation still waits
C9_Witness ==
    \E i \in InvsOf("ledger"), j \in InvsOf("signer") :
        /\ invs[i].pc = "returned"
        /\ invs[i].result = "cell"
        /\ invs[j].pc = "await"
        /\ reqs[invs[j].req].state = "pending"
        /\ published["response"] = 2
        /\ lastResponse.id # reqs[invs[i].req].id

DeeplinkNeverReturns ==
    \A i \in InvsOf("signer-deeplink") :
        /\ invs[i].pc # "returned"
        /\ invs[i].req = 0
        /\ invs[i].pc \in {"delay", "failed"} =>
              /\ invs[i].pk \in txStored
              /\ location = "deeplink"
        /\ Settled(i) => invs[i].result = "NavigateToDeeplink"

\* C10: an invocation of a signer-deeplink Signer never returns: it issues
\* no request on the bus, and when it settles it is a rejection with the
\* 'Navigate to deeplink' error, after the transaction was persisted and
\* window.location was set to the deep link; and it does settle so, whatever
\* is published on the bus.
C10_DeeplinkOnlyRejects ==
    /\ []DeeplinkNeverReturns
    /\ \A i \in 1..MaxInv :
          (i \in DOMAIN invs /\ invs[i].auth = "signer-deeplink")
              ~> (/\ i \in DOMAIN invs
                  /\ invs[i].pc = "failed"
                  /\ invs[i].result = "NavigateToDeeplink")

\* a deep-link invocation rejected while responses were being published
C10_Witness ==
    \E i \in InvsOf("signer-deeplink") :
        /\ invs[i].pc = "failed"
        /\ invs[i].result = "NavigateToDeeplink"
        /\ published["response"] >= 1
        /\ lastResponse.params = "str"

\* this step is the write of call p's disconnectFromWallet for wallet w
Wrote(p, w) == tasks[p][w].pc = "write" /\ tasks'[p][w].pc = "done"

\* the entries of a list whose clientSessionId is not id, in their order
RECURSIVE Without(_, _)
Without(connections, id) ==
    IF connections = <<>> THEN <<>>
    ELSE IF Head(connections).clientSessionId = id
         THEN Without(Tail(connections), id)
         ELSE <<Head(connections)>> \o Without(Tail(connections), id)

\* nothing else wrote wallet w's list since call p read it
Undisturbed(p, w) == stored[w] = tasks[p][w].connections

\* a call outside extension mode returns what its disconnectFromWallet returned
ReturnsTaskList ==
    \A p \in DOMAIN calls :
        (targetEnv # "extension" /\ calls[p].pc = "done")
            => calls[p].result = tasks[p][calls[p].wallet].toDisconnect

\* C3: outside extension mode disconnect(wallet, connection) writes the list
\* it read without the entries that carry the connection's clientSessionId,
\* the other entries kept in their order; with no other write since the read
\* that is the stored list without those entries. No other wallet's list
\* changes, no other wallet is visited, and the removal list is [connection].
C3_DisconnectRemovesOnlyMatching ==
    /\ [][\A p \in DOMAIN calls, w \in Wallets :
             (Wrote(p, w) /\ targetEnv # "extension" /\ ~calls[p].target.all) =>
                 LET id == calls[p].target.connection.clientSessionId
                 IN  /\ w = calls[p].wallet
                     /\ stored'[w] = Without(tasks[p][w].connections, id)
                     /\ Undisturbed(p, w) => stored'[w] = Without(stored[w], id)
                     /\ \A x \in Wallets \ {w} : stored'[x] = stored[x]
                     /\ tasks'[p][w].toDisconnect = <<calls[p].target.connection>>
         ]_vars
    /\ []ReturnsTaskList

\* the scenario: the list [1, 2] was read, 1 was disconnected, [2] is stored
\* and [1] was returned
C3_Witness ==
    \E p \in DOMAIN calls :
        LET w == calls[p].wallet
        IN  /\ targetEnv = "web"
            /\ calls[p].pc = "done"
            /\ ~calls[p].target.all
            /\ calls[p].target.connection.clientSessionId = 1
            /\ tasks[p][w].connections =
                   <<[clientSessionId |-> 1, webViewUrl |-> "u1"],
                     [clientSessionId |-> 2, webViewUrl |-> "u1"]>>
            /\ stored[w] = <<[clientSessionId |-> 2, webViewUrl |-> "u1"]>>
            /\ calls[p].result = <<[clientSessionId |-> 1, webViewUrl |-> "u1"]>>

\* C4: disconnect(wallet, 'all') writes the empty list for the wallet and
\* returns the list it read, which with no other write since the read is the
\* list stored just before the write, entry for entry.
C4_DisconnectAllReturnsPriorSet ==
    /\ [][\A p \in DOMAIN calls, w \in Wallets :
             (Wrote(p, w) /\ calls[p].target.all) =>
                 /\ stored'[w] = <<>>
                 /\ \A x \in Wallets \ {w} : stored'[x] = stored[x]
                 /\ tasks'[p][w].toDisconnect = tasks[p][w].connections
                 /\ Undisturbed(p, w) => tasks'[p][w].toDisconnect = stored[w]
         ]_vars
    /\ []ReturnsTaskList

\* a disconnect-all call returned the two entries it found and left none
C4_Witness ==
    \E p \in DOMAIN calls :
        /\ targetEnv = "web"
        /\ calls[p].pc = "done"
        /\ calls[p].target.all
        /\ Len(calls[p].result) = 2
        /\ stored[calls[p].wallet] = <<>>

\* C5: lost update. When call q writes wallet w's list after call p wrote it
\* between q's read and q's write, both for single connections with
\* different ids, and the list q read held p's connection, then the list
\* stored once both have written holds the connection p removed.
C5_LostUpdate ==
    [][\A q \in DOMAIN calls, w \in Wallets :
          Wrote(q, w) =>
              \A p \in tasks[q][w].missed :
                  LET idp == calls[p].target.connection.clientSessionId
                      idq == calls[q].target.connection.clientSessionId
                  IN  (/\ ~calls[p].target.all
                       /\ ~calls[q].target.all
                       /\ idp # idq
                       /\ idp \in SessionIdsOf(tasks[q][w].connections))
                          => /\ tasks'[p][w].pc = "done"
                             /\ idp \in SessionIdsOf(stored'[w])
      ]_vars

\* both calls are done, p removed its connection from the list it read, q
\* read before p wrote, and p's connection is stored again
C5_Witness ==
    \E p, q \in DOMAIN calls :
        LET w == calls[q].wallet
            idp == calls[p].target.connection.clientSessionId
            idq == calls[q].target.connection.clientSessionId
        IN  /\ p # q
            /\ calls[p].wallet = w
            /\ calls[p].pc = "done"
            /\ calls[q].pc = "done"
            /\ ~calls[p].target.all
            /\ ~calls[q].target.all
            /\ idp # idq
            /\ p \in tasks[q][w].missed
            /\ idp \in SessionIdsOf(tasks[p][w].connections)
            /\ idq \in SessionIdsOf(tasks[q][w].connections)
            /\ tasks[p][w].connections = tasks[q][w].connections
            /\ idp \in SessionIdsOf(stored[w])
            /\ idq \notin SessionIdsOf(stored[w])

\* C11: every Signer getSigner returned carries one tag, fixed when it was
\* built: 'ledger' for a ledger wallet and 'cell' for a signer,
\* signer-deeplink, none, password or keychain wallet; no step, a call of a
\* Signer included, changes or removes a Signer that was built.
C11_TagFixedByAuthKind ==
    /\ [](\A s \in signers :
            /\ s.auth = getWalletAuthState(s.pk)
            /\ s.type \in {"ledger", "cell"}
            /\ s.type = "ledger" <=> s.auth = "ledger"
            /\ \A t \in signers : t.pk = s.pk => t.type = s.type)
    /\ [][signers \subseteq signers']_vars
    /\ [][invs' # invs => signers' = signers]_vars

\* a ledger Signer and a password Signer were built and each was called
C11_Witness ==
    /\ \E s \in signers : s.auth = "ledger" /\ s.type = "ledger"
    /\ \E s \in signers : s.auth = "password" /\ s.type = "cell"
    /\ \E i, j \in DOMAIN invs :
           /\ invs[i].auth = "ledger" /\ invs[i].pc = "returned"
           /\ invs[j].auth = "password" /\ invs[j].pc = "returned"

\* C12: a getMnemonic call for a 'password' wallet whose prompt was rejected
\* (the matching response carried a value that is not a string) and that has
\* gone on fails with the value of that rejection, holds no secret, and has
\* never called getWalletMnemonic; a call of getWalletMnemonic is only ever
\* made for a prompt that was resolved.
C12_RejectedPromptNoDecrypt ==
    \A m \in DOMAIN secrets :
        getWalletAuthState(secrets[m].pk) = "password" =>
            LET req == reqs[secrets[m].req]
            IN  /\ (req.state = "rejected" /\ secrets[m].pc # "await") =>
                       /\ secrets[m].pc = "failed"
                       /\ secrets[m].result = req.value
                       /\ secrets[m].result \notin StringValues
                       /\ secrets[m].result # "mnemonic"
                       /\ secrets[m].decrypts = 0
                /\ req.state = "rejected" => secrets[m].decrypts = 0
                /\ secrets[m].pc = "decrypt" \/ secrets[m].decrypts > 0 =>
                       req.state = "resolved"

\* a 'password' getMnemonic failed with the Error object its prompt was
\* answered with
C12_Witness ==
    \E m \in DOMAIN secrets :
        /\ getWalletAuthState(secrets[m].pk) = "password"
        /\ reqs[secrets[m].req].state = "rejected"
        /\ reqs[secrets[m].req].value = "error"
        /\ secrets[m].pc = "failed"
        /\ secrets[m].result = "error"

\* C13: a getMnemonic call for a 'signer' or 'signer-deeplink' wallet has
\* failed with 'Unexpected auth method' as soon as it exists, issued no
\* request, and read neither the stored secret nor the keychain; the step that
\* makes the call publishes no event and registers no listener.
C13_SignerKindsUnsupported ==
    /\ [](\A m \in DOMAIN secrets :
            getWalletAuthState(secrets[m].pk) \in {"signer", "signer-deeplink"} =>
                /\ secrets[m].pc = "failed"
                /\ secrets[m].result = "UnexpectedAuthMethod"
                /\ secrets[m].req = 0
                /\ secrets[m].decrypts = 0
                /\ secrets[m].keychainReads = 0)
    /\ [][(/\ Len(secrets') = Len(secrets) + 1
            /\ getWalletAuthState(secrets'[Len(secrets')].pk)
                   \in {"signer", "signer-deeplink"})
              => UNCHANGED <<published, listeners, reqs, lastResponse>>]_vars

\* getMnemonic was called for the 'signer' wallet and for nothing else, and
\* the bus is untouched
C13_Witness ==
    /\ \E m \in DOMAIN secrets :
           /\ secrets[m].pk = "pkSigner"
           /\ secrets[m].pc = "failed"
           /\ secrets[m].result = "UnexpectedAuthMethod"
    /\ reqs = <<>>
    /\ listeners = <<>>

\* C16: no timeout. A request that waits changes, or loses or gains a
\* listener, only in a step that publishes a response carrying its id; every
\* other step, the clock's advance and responses with other ids included,
\* leaves it pending with exactly one listener registered.
C16_PendingUntilMatchingResponse ==
    /\ [](\A r \in Pending(reqs) : ListenerCount(r, listeners) = 1)
    /\ [][\A r \in Pending(reqs) :
             (ResponsePublished /\ lastResponse'.id = reqs[r].id)
             \/ (/\ reqs'[r] = reqs[r]
                 /\ ListenerCount(r, listeners') = 1)]_vars

\* a request issued at clock 0 still waits with its listener after the clock
\* advanced and every response the behaviour holds was published, the last
\* with another id
C16_Witness ==
    \E r \in Pending(reqs) :
        /\ reqs[r].id = 0
        /\ reqs[r].missed = "none"
        /\ now = MaxClock
        /\ published["response"] = MaxResp
        /\ lastResponse.id \notin {NoId, reqs[r].id}
        /\ ListenerCount(r, listeners) = 1

\* C19: the request event is published before the listener is registered. A
\* step that issues a request and in which a subscriber publishes a response
\* with the request's id leaves the new request pending, never called, with
\* its listener registered; a later step that publishes a response with that
\* id settles it.
C19_SynchronousResponseMissed ==
    /\ [][(Len(reqs') = Len(reqs) + 1 /\ ResponsePublished) =>
             LET r == Len(reqs')
             IN  /\ lastResponse'.id = reqs'[r].id
                 /\ reqs'[r].state = "pending"
                 /\ reqs'[r].calls = 0
                 /\ ListenerCount(r, listeners') = 1]_vars
    /\ [][(Len(reqs') = Len(reqs) /\ ResponsePublished) =>
             \A r \in Pending(reqs) :
                 lastResponse'.id = reqs[r].id =>
                     /\ reqs'[r].state # "pending"
                     /\ reqs'[r].value = lastResponse'.params
                     /\ ListenerCount(r, listeners') = 0]_vars

\* a request missed the password a subscriber published while the request
\* event was handled, and still waits
C19_Witness ==
    \E r \in Pending(reqs) :
        /\ reqs[r].missed = "str"
        /\ reqs[r].method = "getPassword"
        /\ lastResponse = [id |-> reqs[r].id, params |-> "str"]
        /\ ListenerCount(r, listeners) = 1

\* this step is the read of call p's disconnectFromWallet for wallet w
ReadStep(p, w) == tasks[p][w].pc = "read" /\ tasks'[p][w].pc = "write"

\* this step is a saveAccountConnection for wallet w
Saved(w) == stored'[w] # stored[w] /\ tasks' = tasks

\* C17: disconnect(wallet, 'all') twice in sequence. The write of a
\* disconnect-all leaves the wallet's list empty; an empty list stays empty
\* in every step that is neither a save nor the write of a single-connection
\* disconnect that read earlier; and a disconnect-all that reads the list
\* after an earlier disconnect-all wrote it, the list still empty, returns an
\* empty removal list and writes the empty list again.
C17_DisconnectAllTwice ==
    /\ [][\A p \in DOMAIN calls, w \in Wallets :
             (Wrote(p, w) /\ calls[p].target.all) => stored'[w] = <<>>]_vars
    /\ [][\A w \in Wallets :
             (/\ stored[w] = <<>>
              /\ ~Saved(w)
              /\ ~\E r \in DOMAIN calls : Wrote(r, w) /\ ~calls[r].target.all)
                => stored'[w] = <<>>]_vars
    /\ [](\A p, q \in DOMAIN calls :
            LET w == calls[q].wallet
            IN  (/\ targetEnv # "extension"
                 /\ isStandardTonWallet(w)
                 /\ calls[p].target.all /\ calls[q].target.all
                 /\ calls[p].wallet = w
                 /\ p \in tasks[q][w].readAfter
                 /\ tasks[q][w].connections = <<>>
                 /\ calls[q].pc \in {"done", "settled"})
                    => /\ calls[q].result = <<>>
                       /\ calls[q].unsub = <<>>
                       /\ tasks[q][w].pc = "done")
    /\ [][\A q \in DOMAIN calls, w \in Wallets :
             (Wrote(q, w) /\ calls[q].target.all /\ tasks[q][w].connections = <<>>)
                => stored'[w] = <<>> /\ tasks'[q][w].toDisconnect = <<>>]_vars

\* the first disconnect-all returned the wallet's two entries; the second
\* read the list after the first had written it, returned nothing, and the
\* list is empty
C17_Witness ==
    \E p, q \in DOMAIN calls :
        LET w == calls[q].wallet
        IN  /\ targetEnv # "extension"
            /\ isStandardTonWallet(w)
            /\ calls[p].target.all /\ calls[q].target.all
            /\ calls[p].wallet = w
            /\ calls[p].pc = "settled"
            /\ Len(calls[p].result) = 2
            /\ p \in tasks[q][w].readAfter
            /\ calls[q].pc = "settled"
            /\ calls[q].result = <<>>
            /\ stored[w] = <<>>

\* the call has its removal list
Completed(p) == calls[p].pc \in {"done", "settled"}

\* C14: in the extension build one disconnect visits every wallet of the
\* tracked accounts: the call starts a disconnectFromWallet for each, each
\* write leaves the wallet's list without the targeted clientSessionId (empty
\* for 'all') when nothing else wrote it since the read and changes no other
\* wallet's list, and the call's removal list is the per-wallet lists
\* concatenated in wallet order.
C14_ExtensionFanOut ==
    /\ [][(Len(calls') = Len(calls) + 1 /\ targetEnv = "extension"
              /\ calls'[Len(calls')].pc = "run")
             => \A w \in Wallets : tasks'[Len(calls')][w].pc = "read"]_vars
    /\ [][\A p \in DOMAIN calls, w \in Wallets :
             (Wrote(p, w) /\ targetEnv = "extension") =>
                 /\ \A x \in Wallets \ {w} : stored'[x] = stored[x]
                 /\ Undisturbed(p, w) =>
                        IF calls[p].target.all
                        THEN stored'[w] = <<>>
                        ELSE LET id == calls[p].target.connection.clientSessionId
                             IN  /\ stored'[w] = Without(stored[w], id)
                                 /\ id \notin SessionIdsOf(stored'[w])]_vars
    /\ [](\A p \in DOMAIN calls :
            (targetEnv = "extension" /\ Completed(p)) =>
                /\ \A w \in Wallets : tasks[p][w].pc = "done"
                /\ calls[p].result = tasks[p][WalletOrder[1]].toDisconnect
                                         \o tasks[p][WalletOrder[2]].toDisconnect)

\* an extension disconnect of session 1 completed: both wallets held session
\* 1, neither holds it now, and the first wallet keeps its other entry
C14_Witness ==
    \E p \in DOMAIN calls :
        /\ targetEnv = "extension"
        /\ Completed(p)
        /\ ~calls[p].target.all
        /\ calls[p].target.connection.clientSessionId = 1
        /\ \A w \in Wallets : 1 \in SessionIdsOf(tasks[p][w].connections)
        /\ \A w \in Wallets : 1 \notin SessionIdsOf(stored[w])
        /\ SessionIdsOf(stored["w1"]) = {2}
        /\ Len(calls[p].result) = 2

\* C15: unsubscription comes after persistence and is best effort. With
\* sdk.notifications present a settled call has attempted exactly one
\* unsubscribeTonConnect per entry of its removal list, in order; attempts
\* exist only for a call all of whose writes succeeded; and the step that
\* makes the attempts, whichever of them fail, settles the call as a success
\* and leaves the stored lists and the removal list as they were.
C15_UnsubscribeBestEffort ==
    /\ [](\A p \in DOMAIN calls :
            /\ (calls[p].pc = "settled" /\ calls[p].notifications) =>
                   /\ Len(calls[p].unsub) = Len(calls[p].result)
                   /\ \A i \in DOMAIN calls[p].unsub :
                          calls[p].unsub[i].clientSessionId
                              = calls[p].result[i].clientSessionId
            /\ calls[p].unsub # <<>> =>
                   /\ calls[p].pc = "settled"
                   /\ \A w \in Wallets : tasks[p][w].pc \in {"none", "done"})
    /\ [][\A p \in DOMAIN calls :
             /\ Completed(p) => Completed(p)'
             /\ calls'[p].unsub # calls[p].unsub =>
                    /\ calls[p].pc = "done"
                    /\ calls'[p].pc = "settled"
                    /\ calls'[p].result = calls[p].result
                    /\ stored' = stored]_vars

\* a call settled although one of its two unsubscriptions failed; the other
\* was still attempted and succeeded
C15_Witness ==
    \E p \in DOMAIN calls :
        /\ calls[p].pc = "settled"
        /\ calls[p].notifications
        /\ Len(calls[p].unsub) >= 2
        /\ \E i, j \in DOMAIN calls[p].unsub :
               /\ i < j
               /\ ~calls[p].unsub[i].ok
               /\ calls[p].unsub[j].ok

\* C20: disconnectFromWallet for one connection returns [connection]
\* whatever the list holds, and when no entry carries the connection's
\* clientSessionId it writes the list back as it read it. In the extension
\* build the call's removal list is therefore the connection once per wallet,
\* and with sdk.notifications present unsubscribeTonConnect is attempted once
\* per wallet for that one clientSessionId.
C20_RemovalListIsArgument ==
    /\ [](\A p \in DOMAIN calls, w \in Wallets :
            (tasks[p][w].pc = "done" /\ ~calls[p].target.all) =>
                tasks[p][w].toDisconnect = <<calls[p].target.connection>>)
    /\ [][\A p \in DOMAIN calls, w \in Wallets :
             (/\ Wrote(p, w)
              /\ ~calls[p].target.all
              /\ calls[p].target.connection.clientSessionId
                     \notin SessionIdsOf(tasks[p][w].connections))
                => stored'[w] = tasks[p][w].connections]_vars
    /\ [](\A p \in DOMAIN calls :
            (targetEnv = "extension" /\ ~calls[p].target.all /\ Completed(p)) =>
                /\ calls[p].result =
                       [i \in 1..Len(WalletOrder) |-> calls[p].target.connection]
                /\ (calls[p].pc = "settled" /\ calls[p].notifications) =>
                       /\ Len(calls[p].unsub) = Len(WalletOrder)
                       /\ \A i \in DOMAIN calls[p].unsub :
                              calls[p].unsub[i].clientSessionId
                                  = calls[p].target.connection.clientSessionId)

\* an extension disconnect of a connection no wallet holds settled with the
\* connection twice in its removal list and two unsubscriptions for it,
\* the first wallet's list as it was
C20_Witness ==
    \E p \in DOMAIN calls :
        LET id == calls[p].target.connection.clientSessionId
        IN  /\ targetEnv = "extension"
            /\ calls[p].pc = "settled"
            /\ calls[p].notifications
            /\ ~calls[p].target.all
            /\ \A w \in Wallets : id \notin SessionIdsOf(tasks[p][w].connections)
            /\ tasks[p]["w1"].connections # <<>>
            /\ stored["w1"] = tasks[p]["w1"].connections
            /\ calls[p].result = <<calls[p].target.connection, calls[p].target.connection>>
            /\ Len(calls[p].unsub) = 2
            /\ \A i \in DOMAIN calls[p].unsub : calls[p].unsub[i].clientSessionId = id

\* this step is the saveAccountConnection of connect call k
SavedBy(k) == connects[k].pc = "items" /\ connects'[k].pc = "notify"

\* C18: a connection is persisted only by a connect that succeeds. The
\* stored lists change only in the save step of a connect whose every item
\* has produced its reply, and then only the active wallet's list, by the
\* saved connection; a connect with a ton_proof item for a wallet that is not
\* a standard TON wallet or for a ledger account never gets to the save; the
\* step in which a connect fails leaves the stored lists as they were; and a
\* failed connect has saved nothing and asked for no push subscription.
C18_SavedOnlyOnSuccess ==
    /\ [][stored' # stored =>
             \E k \in DOMAIN connects :
                 /\ SavedBy(k)
                 /\ connects[k].replies = connects[k].items
                 /\ \A w \in ActiveWallets \ {connects[k].wallet} : stored'[w] = stored[w]
                 /\ connects[k].connection.clientSessionId
                        \in SessionIdsOf(stored'[connects[k].wallet])]_vars
    /\ [][\A k \in DOMAIN connects :
             (connects[k].pc # "failed" /\ connects'[k].pc = "failed")
                => stored' = stored]_vars
    /\ [](\A k \in DOMAIN connects :
            LET x == connects[k]
            IN  /\ x.pc = "failed" => (~x.saved /\ x.push = "none")
                /\ x.push # "none" => x.saved
                /\ x.saved => x.replies = x.items
                /\ ((\E i \in DOMAIN x.items : x.items[i] = "ton_proof")
                      /\ (~isStandardTonWallet(x.wallet) \/ x.ledger))
                       => (~x.saved /\ x.pc \in {"items", "failed"})
                /\ x.error = "SignerRejected" => (x.pc = "failed" /\ ~x.saved))

\* a connect for a ledger account failed at its ton_proof item after the
\* ton_addr reply; the wallet's list holds only what an earlier connect saved
C18_Witness ==
    \E k, j \in DOMAIN connects :
        /\ connects[k].pc = "failed"
        /\ connects[k].ledger
        /\ connects[k].items = <<"ton_addr", "ton_proof">>
        /\ connects[k].replies = <<"ton_addr">>
        /\ connects[k].error = "TxConfirmationCustomError"
        /\ connects[j].pc = "done"
        /\ connects[j].wallet = connects[k].wallet
        /\ connects[j].push = "requested"
        /\ connects[j].connection # connects[k].connection
        /\ stored[connects[k].wallet] = <<connects[j].connection>>

MnemonicKinds == {"none", "password", "keychain"}

\* the getMnemonic calls getSigner made for wallets of auth kind `kind`
BuildsOf(kind) ==
    {m \in DOMAIN secrets :
        secrets[m].caller = "getSigner" /\ getWalletAuthState(secrets[m].pk) = kind}

\* C21: the secret of a 'none', 'password' or 'keychain' Signer is obtained
\* while the Signer is built. Every such Signer comes from a getMnemonic
\* call of getSigner that returned the mnemonic; each getMnemonic call for a
\* 'password' wallet has published one getPassword event, and its Signer
\* exists only when that prompt was resolved by a string response carrying
\* the request's id, a rejected prompt failing the build with no Signer; and
\* a call of such a Signer returns at once, publishes no event, registers no
\* listener and makes no getMnemonic call.
C21_SecretObtainedAtBuild ==
    /\ [](\A s \in signers :
            s.auth \in MnemonicKinds =>
                \E m \in BuildsOf(s.auth) :
                    /\ secrets[m].pk = s.pk
                    /\ secrets[m].pc = "built"
                    /\ secrets[m].result = "mnemonic")
    /\ [](/\ published["getPassword"]
               = Cardinality({m \in DOMAIN secrets :
                                 getWalletAuthState(secrets[m].pk) = "password"})
          /\ \A m \in BuildsOf("password") :
                LET req == reqs[secrets[m].req]
                IN  /\ req.method = "getPassword"
                    /\ secrets[m].pc \in {"decrypt", "done", "built"} =>
                           /\ req.state = "resolved"
                           /\ req.value \in StringValues
                           /\ req.settledBy = req.id
                    /\ req.state # "resolved" =>
                           /\ secrets[m].pc \in {"await", "failed"}
                           /\ (\A n \in BuildsOf("password") : n = m) =>
                                  ~\E s \in signers : s.pk = secrets[m].pk)
    /\ [][\A i \in DOMAIN invs' :
             (i \notin DOMAIN invs /\ invs'[i].auth \in MnemonicKinds) =>
                 /\ invs'[i].pc = "returned"
                 /\ invs'[i].req = 0
                 /\ UNCHANGED <<published, listeners, reqs, lastResponse, secrets>>]_vars

\* a 'password' Signer was built after its one prompt was answered with the
\* password, and was called twice; no further event, no listener
C21_Witness ==
    /\ \E s \in signers : s.auth = "password"
    /\ \E m \in BuildsOf("password") :
           /\ secrets[m].pc = "built"
           /\ reqs[secrets[m].req].value = "str"
    /\ published["getPassword"] = 1
    /\ Len(reqs) = 1
    /\ listeners = <<>>
    /\ Len(invs) = 2
    /\ \A i \in DOMAIN invs : invs[i].auth = "password" /\ invs[i].pc = "returned"

====
